---- MODULE Spec2Model ----
(***************************************************************************)
(* Model of CricsheetDataIngestor (cricsheet_data_ingestion.py): the       *)
(* incremental ingestion of Cricsheet CSV pairs into two BigQuery tables.  *)
(*                                                                         *)
(* Text is a sequence of one-character strings, so that str.split,         *)
(* str.endswith and the `in` test are computed, not assumed.               *)
(* A DataFrame is the sequence of its rows; an empty DataFrame is << >>.   *)
(* A BigQuery table is a bag of rows (appends commute, rows may repeat).   *)
(***************************************************************************)
EXTENDS Integers, Sequences, FiniteSets, Bags, TLC

VARIABLES
    temp_dir,               \* the extracted archive: file name -> raw CSV rows
    info_table_exists,      \* does <dataset>.<match_info_table_name> exist
    match_info_table,       \* bag of rows of the match-info table
    ball_data_table,        \* bag of rows of the ball-data table
    gbq_calls,              \* save_data_to_gbq calls of the current run, in order
    pc,                     \* position of ingest()
    error,                  \* the exception that terminated ingest(), or "none"
    runs,                   \* number of ingest() invocations started
    match_ids_to_process,   \* ingest() local, line 153
    count_of_new_matches,   \* ingest() local, line 156
    idx,                    \* number of iterations of the for loop begun
    batch_info_dfs,         \* ingest() local, line 160
    batch_ball_dfs,         \* ingest() local, line 161
    num_files_processed,    \* ingest() local, line 162
    call                    \* a direct call of one method: [fn, args, ret]

vars == <<temp_dir, info_table_exists, match_info_table, ball_data_table,
          gbq_calls, pc, error, runs, match_ids_to_process,
          count_of_new_matches, idx, batch_info_dfs, batch_ball_dfs,
          num_files_processed, call>>

----------------------------------------------------------------------------
(* Bounds of the model.                                                    *)

\* Number of distinct matches whose files the archive may hold.
MaxMatches == 3
\* The batch size of ingest() (line 163 sets 500); scaled so that full
\* batches, a trailing partial batch and exact multiples all occur.
batch_size == 2
\* Number of times ingest() is invoked against the same store.
MaxRuns == 2
\* Longest argument list of a direct call of get_match_ids_to_process.
MaxLen == 3
\* Longest match identifier of a direct call of get_match_id.
MaxIdLen == 2
\* Most rows of the ball CSV of a direct call of load_ball_csv.
MaxRows == 2

----------------------------------------------------------------------------
(* Text.                                                                   *)

Dot == <<".">>
InfoMarker == <<"_", "i", "n", "f", "o">>
CsvExt == <<"c", "s", "v">>
JsonExt == <<"j", "s", "o", "n">>
TxtExt == <<"t", "x", "t">>
Digits == {"0", "1", "2", "3", "4", "5", "6", "7", "8", "9"}

\* sub in s
Contains(s, sub) ==
    \E i \in 1..(Len(s) - Len(sub) + 1) : SubSeq(s, i, i + Len(sub) - 1) = sub

\* s.endswith(suffix)
EndsWith(s, suffix) ==
    /\ Len(s) >= Len(suffix)
    /\ SubSeq(s, Len(s) - Len(suffix) + 1, Len(s)) = suffix

\* s.split(".")[0]: the text before the first ".", all of s when it has none
SplitDotFirst(s) ==
    IF \E i \in 1..Len(s) : s[i] = "."
    THEN LET first == CHOOSE i \in 1..Len(s) :
                          /\ s[i] = "."
                          /\ \A j \in 1..(i - 1) : s[j] # "."
         IN  SubSeq(s, 1, first - 1)
    ELSE s

\* s.split(".")[1]: the text between the first and the second "."
SplitDotSecond(s) ==
    LET rest == SubSeq(s, Len(SplitDotFirst(s)) + 2, Len(s))
    IN  SplitDotFirst(rest)

\* the elements of a list, as set(list) computes them
ToSet(s) == {s[i] : i \in 1..Len(s)}

\* every order a list built from a set can have
Perms(S) ==
    {s \in [1..Cardinality(S) -> S] : \A i, j \in 1..Cardinality(S) :
                                          s[i] = s[j] => i = j}

\* one list of the elements of S, for values whose order no consumer reads
RECURSIVE SetToList(_)
SetToList(S) ==
    IF S = {} THEN << >>
    ELSE LET x == CHOOSE y \in S : TRUE
         IN  <<x>> \o SetToList(S \ {x})

RECURSIVE Concat(_)
\* pd.concat(dfs): the rows of the frames, in order
Concat(dfs) ==
    IF dfs = << >> THEN << >> ELSE Head(dfs) \o Concat(Tail(dfs))

RECURSIVE SeqToBag(_)
SeqToBag(s) ==
    IF s = << >> THEN EmptyBag ELSE SetToBag({Head(s)}) (+) SeqToBag(Tail(s))

----------------------------------------------------------------------------
(* File names.                                                             *)

\* f"{match_id}.csv"
BallFileName(match_id) == match_id \o Dot \o CsvExt
\* f"{match_id}_info.csv"
InfoFileName(match_id) == match_id \o InfoMarker \o Dot \o CsvExt
ReadmeFileName == <<"R", "E", "A", "D", "M", "E">> \o Dot \o TxtExt

----------------------------------------------------------------------------
(* CSV content and pandas values.                                          *)

\* A parsed cell: text, an integer, or the null pandas reads a missing
\* field as.
NaN == [t |-> "nan", v |-> << >>]
StrCell(v) == [t |-> "str", v |-> v]
IntCell(v) == [t |-> "int", v |-> v]
EmptyStr == StrCell(<< >>)

\* Fields pd.read_csv reads as null by default (the empty field, "NA").
NaValues == {<< >>, <<"N", "A">>}

\* pd.read_csv on one field: null, integer or text
read_csv_cell(raw) ==
    IF raw \in NaValues THEN NaN
    ELSE IF \A i \in 1..Len(raw) : raw[i] \in Digits THEN IntCell(raw)
    ELSE StrCell(raw)

\* Series.astype(str) on one cell
astype_str(cell) ==
    IF cell.t = "nan" THEN StrCell(<<"n", "a", "n">>) ELSE StrCell(cell.v)

\* The result of a method: the value it returns, or the exception it raises.
Return(v) == [exc |-> "none", val |-> v]
Raise(e) == [exc |-> e, val |-> << >>]

\* What a failed lookup of a path yields (None; "" is falsy alike).
None == << >>

\* The n-th match identifier of the archive; identifiers are numeric or,
\* like wi_1, alphanumeric.
MatchIdOf(n) == IF n = 1 THEN <<"w", "i", "_", "1">> ELSE <<ToString(n)>>
MatchIds == {MatchIdOf(n) : n \in 1..MaxMatches}

\* The rows of <id>.csv as Cricsheet ships it: one delivery, no second
\* dismissal.
BallFileRows(match_id) ==
    << [match_id |-> match_id,
        season |-> <<"2", "0", "2", "3">>,
        other_wicket_type |-> << >>,
        other_player_dismissed |-> << >>] >>

\* The rows of <id>_info.csv; info_value_2 and info_value_3 are carried
\* like info_value and left out.
InfoFileRows ==
    << [row_type |-> <<"i", "n", "f", "o">>,
        info_category |-> <<"v", "e", "n", "u", "e">>,
        info_value |-> <<"L", "o", "r", "d", "s">>] >>

\* The archive always ships a README.txt, which holds no rows.
ReadmeRows == << >>

----------------------------------------------------------------------------
(* The methods of CricsheetDataIngestor.                                   *)

\* A bug: the second element of the split is returned.
get_match_id_second(csv_file_name) == SplitDotSecond(csv_file_name)

get_match_id(csv_file_name) == SplitDotFirst(csv_file_name)

get_csv_files ==
    SetToList({x \in DOMAIN temp_dir :
                   ~Contains(x, InfoMarker) /\ EndsWith(x, Dot \o CsvExt)})

\* A bug: the stored IDs are filtered out of the list, which keeps
\* the duplicates of the list.
get_match_ids_to_process_list(downloaded_csv_files, existing_match_ids) ==
    LET prospective_match_ids ==
            [i \in 1..Len(downloaded_csv_files) |->
                get_match_id(downloaded_csv_files[i])]
    IN  { SelectSeq(prospective_match_ids,
                    LAMBDA x : x \notin ToSet(existing_match_ids)) }

\* The lists list(set(...) - set(...)) can be: a set has no order.
get_match_ids_to_process(downloaded_csv_files, existing_match_ids) ==
    LET prospective_match_ids ==
            [i \in 1..Len(downloaded_csv_files) |->
                get_match_id(downloaded_csv_files[i])]
    IN  Perms(ToSet(prospective_match_ids) \ ToSet(existing_match_ids))

\* The distinct match_id values of the match-info table.
StoredMatchIds == {row.match_id : row \in BagToSet(match_info_table)}

\* A bug: no try/except around get_table.
get_existing_match_ids_unguarded ==
    IF ~info_table_exists THEN Raise("NotFound")
    ELSE Return(SetToList(StoredMatchIds))

get_existing_match_ids ==
    IF ~info_table_exists THEN Return(<< >>)
    ELSE Return(SetToList(StoredMatchIds))

get_valid_csv_fp(match_id, is_info_file) ==
    LET csv_fp == IF is_info_file THEN InfoFileName(match_id)
                  ELSE BallFileName(match_id)
    IN  IF csv_fp \in DOMAIN temp_dir THEN csv_fp ELSE None

\* pd.read_csv(fp): the parsed rows, or FileNotFoundError
read_csv(fp) ==
    IF fp \in DOMAIN temp_dir
    THEN Return([i \in 1..Len(temp_dir[fp]) |->
                    [c \in DOMAIN temp_dir[fp][i] |->
                        read_csv_cell(temp_dir[fp][i][c])]])
    ELSE Raise("FileNotFoundError")

\* info_df.loc[:, "match_id"] = match_id
with_match_id(df, match_id) ==
    [i \in 1..Len(df) |->
        [c \in DOMAIN df[i] \cup {"match_id"} |->
            IF c = "match_id" THEN match_id ELSE df[i][c]]]

\* A bug: the file is read whether or not it exists.
load_info_csv_unguarded(match_id) ==
    LET info_df == read_csv(InfoFileName(match_id))
    IN  IF info_df.exc # "none" THEN info_df
        ELSE Return(with_match_id(info_df.val, match_id))

load_info_csv(match_id) ==
    LET match_info_fp == get_valid_csv_fp(match_id, TRUE)
    IN  IF match_info_fp = None THEN Return(<< >>)
        ELSE LET info_df == read_csv(match_info_fp)
             IN  IF info_df.exc # "none" THEN info_df
                 ELSE Return(with_match_id(info_df.val, match_id))

\* A bug: only one of the two columns is filled.
fillna_one(df) ==
    [i \in 1..Len(df) |->
        [c \in DOMAIN df[i] |->
            IF c = "other_wicket_type" /\ df[i][c] = NaN
            THEN EmptyStr ELSE df[i][c]]]

\* ball_df.fillna(value={"other_wicket_type": "", "other_player_dismissed": ""})
fillna(df) ==
    [i \in 1..Len(df) |->
        [c \in DOMAIN df[i] |->
            IF c \in {"other_wicket_type", "other_player_dismissed"}
               /\ df[i][c] = NaN
            THEN EmptyStr ELSE df[i][c]]]

\* the season and match_id columns cast with astype(str)
cast_text(df) ==
    [i \in 1..Len(df) |->
        [c \in DOMAIN df[i] |->
            IF c \in {"season", "match_id"}
            THEN astype_str(df[i][c]) ELSE df[i][c]]]

load_ball_csv(match_id) ==
    LET match_ball_fp == get_valid_csv_fp(match_id, FALSE)
    IN  IF match_ball_fp = None THEN Return(<< >>)
        ELSE LET ball_df == read_csv(match_ball_fp)
             IN  IF ball_df.exc # "none" THEN ball_df
                 ELSE Return(cast_text(fillna(ball_df.val)))

\* A bug: the end of the run is not tested.
flush_condition_full_only(current_batch_size, processed, total) ==
    current_batch_size = batch_size

\* A bug: the batch is flushed one match early.
flush_condition_early(current_batch_size, processed, total) ==
    \/ current_batch_size + 1 = batch_size
    \/ current_batch_size + processed = total

\* The test of lines 169-171.
flush_condition(current_batch_size, processed, total) ==
    \/ current_batch_size = batch_size
    \/ current_batch_size + processed = total

----------------------------------------------------------------------------
(* The archive and the initial state.                                      *)

\* The rows of a file of the archive, by its name.
ArchiveRows(name) ==
    IF name = ReadmeFileName THEN ReadmeRows
    ELSE IF EndsWith(SplitDotFirst(name), InfoMarker) THEN InfoFileRows
    ELSE BallFileRows(SplitDotFirst(name))

\* The directory with the ball files of `balls`, the info files of `infos`
\* and the README the archive ships.
Directory(balls, infos) ==
    [name \in {BallFileName(m) : m \in balls}
              \cup {InfoFileName(m) : m \in infos}
              \cup {ReadmeFileName} |-> ArchiveRows(name)]

Pending == [exc |-> "pending", val |-> << >>]
NoCall == [fn |-> "none", args |-> << >>, ret |-> Pending]

\* ingest() has not been invoked; the destination dataset is empty.
Idle ==
    /\ info_table_exists = FALSE
    /\ match_info_table = EmptyBag
    /\ ball_data_table = EmptyBag
    /\ gbq_calls = << >>
    /\ pc = "idle"
    /\ error = "none"
    /\ runs = 0
    /\ match_ids_to_process = << >>
    /\ count_of_new_matches = 0
    /\ idx = 0
    /\ batch_info_dfs = << >>
    /\ batch_ball_dfs = << >>
    /\ num_files_processed = 0

Init ==
    /\ Idle
    /\ \E balls \in SUBSET MatchIds : \E infos \in SUBSET balls :
           temp_dir = Directory(balls, infos)
    /\ call = NoCall

----------------------------------------------------------------------------
(* ingest().                                                               *)

store == <<info_table_exists, match_info_table, ball_data_table>>
locals == <<match_ids_to_process, count_of_new_matches, idx,
            batch_info_dfs, batch_ball_dfs, num_files_processed>>

\* An exception leaves ingest(): the process ends.
Abort(e) ==
    /\ pc' = "aborted"
    /\ error' = e

\* Lines 151-163: the diff against the store and the initial locals.
Start ==
    /\ pc \in {"idle", "done", "aborted"}
    /\ runs < MaxRuns
    /\ runs' = runs + 1
    /\ gbq_calls' = << >>
    /\ LET downloaded_csv_files == get_csv_files
           existing_match_ids == get_existing_match_ids
       IN  IF existing_match_ids.exc # "none"
           THEN /\ Abort(existing_match_ids.exc)
                /\ UNCHANGED locals
           ELSE /\ \E ids \in get_match_ids_to_process(
                                  downloaded_csv_files,
                                  existing_match_ids.val) :
                       /\ match_ids_to_process' = ids
                       /\ count_of_new_matches' = Len(ids)
                /\ batch_info_dfs' = << >>
                /\ batch_ball_dfs' = << >>
                /\ num_files_processed' = 0
                /\ idx' = 0
                /\ pc' = "loop"
                /\ error' = "none"
    /\ UNCHANGED <<temp_dir, store, call>>

\* Lines 164-171: one match is loaded and accumulated, and the flush test
\* is made.
LoadMatch ==
    /\ pc = "loop"
    /\ idx < Len(match_ids_to_process)
    /\ LET match_id == match_ids_to_process[idx + 1]
           info_df == load_info_csv(match_id)
           ball_df == load_ball_csv(match_id)
       IN  IF info_df.exc # "none" \/ ball_df.exc # "none"
           THEN /\ Abort(IF info_df.exc # "none" THEN info_df.exc
                         ELSE ball_df.exc)
                /\ UNCHANGED <<idx, batch_info_dfs, batch_ball_dfs>>
           ELSE /\ batch_info_dfs' = Append(batch_info_dfs, info_df.val)
                /\ batch_ball_dfs' = Append(batch_ball_dfs, ball_df.val)
                /\ idx' = idx + 1
                /\ pc' = IF flush_condition(Len(batch_info_dfs) + 1,
                                            num_files_processed,
                                            count_of_new_matches)
                         THEN "report" ELSE "loop"
                /\ error' = "none"
    /\ UNCHANGED <<temp_dir, store, gbq_calls, runs, match_ids_to_process,
                   count_of_new_matches, num_files_processed, call>>

\* Lines 172-173: the processed count is advanced and printed.
Report ==
    /\ pc = "report"
    /\ num_files_processed' = num_files_processed + batch_size
    /\ pc' = "save_info"
    /\ UNCHANGED <<temp_dir, store, gbq_calls, error, runs,
                   match_ids_to_process, count_of_new_matches, idx,
                   batch_info_dfs, batch_ball_dfs, call>>

\* Lines 174-178: the accumulated info frames are appended to the
\* match-info table, which to_gbq creates when it is missing.
SaveInfo ==
    /\ pc = "save_info"
    /\ LET df == Concat(batch_info_dfs)
       IN  /\ match_info_table' = match_info_table (+) SeqToBag(df)
           /\ gbq_calls' = Append(gbq_calls,
                                  [table |-> "match_info", df |-> df])
    /\ info_table_exists' = TRUE
    /\ pc' = "save_ball"
    /\ UNCHANGED <<temp_dir, ball_data_table, error, runs, locals, call>>

\* Lines 179-183: the accumulated ball frames are appended to the ball table.
SaveBall ==
    /\ pc = "save_ball"
    /\ LET df == Concat(batch_ball_dfs)
       IN  /\ ball_data_table' = ball_data_table (+) SeqToBag(df)
           /\ gbq_calls' = Append(gbq_calls,
                                  [table |-> "ball_data", df |-> df])
    /\ pc' = "clear"
    /\ UNCHANGED <<temp_dir, info_table_exists, match_info_table, error,
                   runs, locals, call>>

\* Lines 360-365 raising: to_gbq fails (network, quota, schema), nothing
\* is appended and the exception leaves ingest() uncaught.
SaveFails ==
    /\ pc \in {"save_info", "save_ball"}
    /\ Abort("GenericGBQException")
    /\ UNCHANGED <<temp_dir, store, gbq_calls, runs, locals, call>>

\* Lines 184-185: both accumulators are cleared.
Clear ==
    /\ pc = "clear"
    /\ batch_info_dfs' = << >>
    /\ batch_ball_dfs' = << >>
    /\ pc' = "loop"
    /\ UNCHANGED <<temp_dir, store, gbq_calls, error, runs,
                   match_ids_to_process, count_of_new_matches, idx,
                   num_files_processed, call>>

\* Lines 164 and 188: the list is exhausted; delete_temp_dir does nothing.
Finish ==
    /\ pc = "loop"
    /\ idx = Len(match_ids_to_process)
    /\ pc' = "done"
    /\ UNCHANGED <<temp_dir, store, gbq_calls, error, runs, locals, call>>

Next ==
    \/ Start
    \/ LoadMatch
    \/ Report
    \/ SaveInfo
    \/ SaveBall
    \/ SaveFails
    \/ Clear
    \/ Finish

Spec == Init /\ [][Next]_vars

----------------------------------------------------------------------------
(* Direct calls of the pure methods, on arguments ingest() need not        *)
(* produce: lists with duplicates, names of either form, CSV rows with     *)
(* and without the optional dismissal fields.                              *)

\* Lists of at most n elements of S.
RECURSIVE ListsUpTo(_, _)
ListsUpTo(S, n) ==
    IF n = 0 THEN {<< >>}
    ELSE LET shorter == ListsUpTo(S, n - 1)
         IN  shorter \cup {Append(l, x) : l \in shorter, x \in S}

\* Characters of the identifiers of the direct calls of get_match_id.
IdChars == {"1", "2", "w", "_"}
CallIds == ListsUpTo(IdChars, MaxIdLen) \ {<< >>}
\* <id>.<ext> and <id>_info.<ext>
PlainName(id, ext) == id \o Dot \o ext
CompanionName(id, ext) == id \o InfoMarker \o Dot \o ext
CallNames ==
    {PlainName(id, ext) : id \in CallIds, ext \in {CsvExt, JsonExt}}
        \cup {CompanionName(id, ext) : id \in CallIds, ext \in {CsvExt, JsonExt}}

\* Raw fields of the two optional dismissal columns: absent, the literal
\* NA, or a value.
RawWicketTypes == {<< >>, <<"N", "A">>, <<"r", "u", "n">>}
RawPlayers == {<< >>, <<"N", "A">>, <<"R", "o", "o", "t">>}
RawBallRows(match_id) ==
    [match_id : {match_id},
     season : {<<"2", "0", "2", "3">>},
     other_wicket_type : RawWicketTypes,
     other_player_dismissed : RawPlayers]

InitGetMatchId ==
    /\ temp_dir = Directory({}, {})
    /\ \E name \in CallNames :
           call = [fn |-> "get_match_id", args |-> <<name>>, ret |-> Pending]

InitGetMatchIdsToProcess ==
    /\ temp_dir = Directory({}, {})
    /\ \E files \in ListsUpTo({BallFileName(m) : m \in MatchIds}, MaxLen) :
       \E stored \in ListsUpTo(MatchIds, MaxLen) :
           call = [fn |-> "get_match_ids_to_process",
                   args |-> <<files, stored>>, ret |-> Pending]

InitLoadBallCsv ==
    \E match_id \in {MatchIdOf(1)} :
        /\ \/ temp_dir = Directory({}, {})
           \/ \E rows \in ListsUpTo(RawBallRows(match_id), MaxRows) :
                  temp_dir = [name \in {BallFileName(match_id)} |-> rows]
        /\ call = [fn |-> "load_ball_csv", args |-> <<match_id>>,
                   ret |-> Pending]

InitCalls ==
    /\ Idle
    /\ \/ InitGetMatchId
       \/ InitGetMatchIdsToProcess
       \/ InitLoadBallCsv

Returns(value) ==
    /\ call.ret = Pending
    /\ call' = [call EXCEPT !.ret = value]
    /\ UNCHANGED <<temp_dir, store, gbq_calls, pc, error, runs, locals>>

CallGetMatchId ==
    /\ call.fn = "get_match_id"
    /\ Returns(Return(get_match_id(call.args[1])))

CallGetMatchIdsToProcess ==
    /\ call.fn = "get_match_ids_to_process"
    /\ \E ids \in get_match_ids_to_process(call.args[1], call.args[2]) :
           Returns(Return(ids))

CallLoadBallCsv ==
    /\ call.fn = "load_ball_csv"
    /\ Returns(load_ball_csv(call.args[1]))

NextCalls ==
    \/ CallGetMatchId
    \/ CallGetMatchIdsToProcess
    \/ CallLoadBallCsv

SpecCalls == InitCalls /\ [][NextCalls]_vars

----------------------------------------------------------------------------
(* Properties.                                                             *)

\* The call of method fn has returned.
Returned(fn) == call.fn = fn /\ call.ret.exc # "pending"

NoDuplicates(l) == \A i, j \in 1..Len(l) : l[i] = l[j] => i = j

\* The matches whose ball file is in the archive.
AvailableIds == {m \in MatchIds : BallFileName(m) \in DOMAIN temp_dir}
HasInfoFile(m) == InfoFileName(m) \in DOMAIN temp_dir

\* Number of copies a bag holds of the rows of a set.
RECURSIVE CopiesOfAll(_, _)
CopiesOfAll(bag, rows) ==
    IF rows = {} THEN 0
    ELSE LET r == CHOOSE x \in rows : TRUE
         IN  CopiesIn(r, bag) + CopiesOfAll(bag, rows \ {r})

\* Number of rows of match m in the match-info table, in the ball table.
InfoRowsStored(m) ==
    CopiesOfAll(match_info_table,
                {r \in BagToSet(match_info_table) : r.match_id = m})
BallRowsStored(m) ==
    CopiesOfAll(ball_data_table,
                {r \in BagToSet(ball_data_table) : r.match_id.v = m})

\* The rows handed to save_data_to_gbq for a table in the current run.
SavedRows(table) ==
    LET saves == SelectSeq(gbq_calls, LAMBDA c : c.table = table)
    IN  Concat([k \in 1..Len(saves) |-> saves[k].df])

\* C1: get_match_ids_to_process(F, S) returns each element of A - S exactly
\* once and nothing else, A being the identifiers of the files of F; the
\* result has no duplicates whatever duplicates F and S hold, and it is
\* empty when every identifier of A is stored.
C1_DiffIsSetDifference ==
    Returned("get_match_ids_to_process") =>
        LET F == call.args[1]
            S == call.args[2]
            R == call.ret.val
            A == {m \in MatchIds : BallFileName(m) \in ToSet(F)}
        IN  /\ call.ret.exc = "none"
            /\ ToSet(R) = A \ ToSet(S)
            /\ NoDuplicates(R)
            /\ (A \subseteq ToSet(S) => R = << >>)

\* C1 witness: a call whose file list and stored list both hold a
\* duplicate, with a stored identifier removed and a new one returned.
C1_Witness ==
    /\ Returned("get_match_ids_to_process")
    /\ ~NoDuplicates(call.args[1])
    /\ ~NoDuplicates(call.args[2])
    /\ \E f \in ToSet(call.args[1]) :
           SplitDotFirst(f) \in ToSet(call.args[2])
    /\ call.ret.val # << >>

\* C2: a flush follows the loading of a match exactly when the accumulated
\* count equals the batch size or the match is the last of the run; rows
\* reach the store only inside a flush; and the step that ends a flush
\* leaves both accumulators empty.
C2_FlushExactlyWhenDue ==
    [][/\ (idx' = idx + 1) =>
              ((pc' = "report") <=>
                   (\/ Len(batch_info_dfs') = batch_size
                    \/ idx' = count_of_new_matches))
       /\ (pc' = "save_info") => (pc = "report")
       /\ (gbq_calls' # gbq_calls /\ runs' = runs) =>
              (pc \in {"save_info", "save_ball"})
       /\ (pc = "clear") =>
              (batch_info_dfs' = << >> /\ batch_ball_dfs' = << >>)]_vars

\* C2 witness: a full batch has been flushed before the end of the run
\* and the accumulators are empty.
C2_Witness ==
    /\ pc = "loop"
    /\ idx = batch_size
    /\ idx < count_of_new_matches
    /\ Len(gbq_calls) = 2
    /\ batch_info_dfs = << >>
    /\ batch_ball_dfs = << >>

\* C3: a new match without its info file gets an empty info record and its
\* ball record, no exception other than a failure of the store ends the
\* run, and a run that ends normally has gone through every new match and
\* stored the ball rows of each.
C3_MissingInfoNeverAborts ==
    /\ error \in {"none", "GenericGBQException"}
    /\ Len(batch_info_dfs) = Len(batch_ball_dfs)
    /\ \A k \in 1..Len(batch_info_dfs) :
           LET m == match_ids_to_process[idx - Len(batch_info_dfs) + k]
           IN  ~HasInfoFile(m) =>
                   /\ batch_info_dfs[k] = << >>
                   /\ batch_ball_dfs[k] # << >>
                   /\ \A i \in 1..Len(batch_ball_dfs[k]) :
                          batch_ball_dfs[k][i].match_id.v = m
    /\ (pc = "done") =>
           /\ idx = count_of_new_matches
           /\ \A m \in ToSet(match_ids_to_process) : BallRowsStored(m) >= 1

\* C3 witness: a run ended normally whose first match had no info file
\* and was followed by another match.
C3_Witness ==
    /\ pc = "done"
    /\ count_of_new_matches >= 2
    /\ ~HasInfoFile(match_ids_to_process[1])
    /\ BallRowsStored(match_ids_to_process[1]) >= 1
    /\ InfoRowsStored(match_ids_to_process[1]) = 0

\* C4: outside a flush, every match is either absent from both tables or
\* present in both.
C4_NoPartialMatch ==
    (pc # "save_ball") =>
        \A m \in MatchIds : (InfoRowsStored(m) = 0) <=> (BallRowsStored(m) = 0)

\* C5: once ingest() has completed without error, a second ingest() over
\* the same files and the resulting store finds no match to process.
C5_RerunFindsNothing ==
    (pc = "done") =>
        get_match_ids_to_process(get_csv_files, get_existing_match_ids.val)
            = {<< >>}

\* C6: while the match-info table does not exist, a run that has started
\* has raised nothing because of it and has taken every available
\* identifier as new; a run that ends normally has processed all of them.
C6_MissingTableMeansAllNew ==
    /\ error # "NotFound"
    /\ (~info_table_exists /\ pc # "idle") =>
           /\ ToSet(match_ids_to_process) = AvailableIds
           /\ count_of_new_matches = Cardinality(AvailableIds)
    /\ (pc = "done") => (idx = count_of_new_matches)

\* C6 witness: the first run, started without the table, ended normally
\* after processing every available match.
C6_Witness ==
    /\ runs = 1
    /\ pc = "done"
    /\ idx = Cardinality(AvailableIds)
    /\ idx >= 2

C8_NoNullDismissal ==
    Returned("load_ball_csv") =>
        /\ call.ret.exc = "none"
        /\ \A i \in 1..Len(call.ret.val) :
               \A c \in {"other_wicket_type", "other_player_dismissed"} :
                   /\ call.ret.val[i][c] # NaN
                   /\ call.ret.val[i][c].t = "str"

\* C8 witness: a file where one row lacks both fields and another row
\* holds both.
C8_Witness ==
    /\ Returned("load_ball_csv")
    /\ Len(call.ret.val) = 2
    /\ temp_dir[BallFileName(call.args[1])][1].other_wicket_type = << >>
    /\ temp_dir[BallFileName(call.args[1])][1].other_player_dismissed
           \in NaValues
    /\ call.ret.val[1].other_wicket_type = EmptyStr
    /\ call.ret.val[1].other_player_dismissed = EmptyStr
    /\ call.ret.val[2].other_wicket_type.v # << >>
    /\ call.ret.val[2].other_player_dismissed.v # << >>

\* C9: when a run ends normally, the rows of every new match have been
\* handed to save_data_to_gbq exactly once for each table, the saves come
\* in ceil(N / B) pairs (info, then ball), and the accumulators are empty.
C9_EachMatchSavedOnce ==
    (pc = "done") =>
        /\ batch_info_dfs = << >>
        /\ batch_ball_dfs = << >>
        /\ Len(gbq_calls) =
               2 * ((count_of_new_matches + batch_size - 1) \div batch_size)
        /\ \A k \in 1..Len(gbq_calls) :
               gbq_calls[k].table =
                   (IF k % 2 = 1 THEN "match_info" ELSE "ball_data")
        /\ \A m \in ToSet(match_ids_to_process) :
               /\ Len(SelectSeq(SavedRows("match_info"),
                                LAMBDA r : r.match_id = m))
                      = (IF HasInfoFile(m) THEN Len(InfoFileRows) ELSE 0)
               /\ Len(SelectSeq(SavedRows("ball_data"),
                                LAMBDA r : r.match_id.v = m))
                      = Len(BallFileRows(m))

\* C9 witness: a run of more matches than one batch holds, not a
\* multiple of the batch size, has ended after two flushes.
C9_Witness ==
    /\ pc = "done"
    /\ count_of_new_matches > batch_size
    /\ count_of_new_matches % batch_size # 0
    /\ Len(gbq_calls) = 4

\* C10: at every progress report, the processed count printed is the number
\* of matches loaded so far and does not exceed the number of new matches.
C10_ReportedCountIsLoaded ==
    (pc = "save_info") =>
        /\ num_files_processed = idx
        /\ num_files_processed <= count_of_new_matches

====
